---- MODULE Spec2Model ----
(***************************************************************************)
(* Model of the jsonpath-extract extension: the result formatter           *)
(* (ResultFormatter), the command handlers of JsonPathExtension (run,      *)
(* runSavedQuery, handleError, getJsonObject, selectSavedQuery,            *)
(* showContent) and the DocProvider that carries the formatted text in a   *)
(* URI.                                                                    *)
(*                                                                         *)
(* Text is a sequence of UTF-16 code units.  A code unit is the            *)
(* one-character string where TLA+ can write it (printable ASCII but the   *)
(* grave accent, and \t \n \f \r) and its name "U+XXXX" otherwise.  A JSON *)
(* value is a pair <<tag, payload>>; an object's payload is its members    *)
(* <<key, value>> in the object's own property order.  "undefined" is the  *)
(* empty tuple and a defined x is <<x>>.                                   *)
(*                                                                         *)
(* A number is <<kind, neg, ds, n>>: the sign, the significant decimal     *)
(* digits ds (no leading and no trailing zero, none at all for zero) and   *)
(* the position n of the decimal point, the value being 0.ds * 10^n; kind  *)
(* is "finite" or "infinite".  A number is a double: a literal is read as  *)
(* the double nearest to it, ties to the even significand, and ds is the   *)
(* shortest decimal that is read back as that double.                      *)
(***************************************************************************)
EXTENDS Integers, Sequences, FiniteSets, TLC

VARIABLES
    results,      \* formatter harness: the match list handed to format
    createJson,   \* formatter harness: the format flag
    content,      \* formatter harness: what format returned
    parsed,       \* formatter harness: JSON.parse of content
    given,        \* formatter harness: the caller's copy of the match list
    fpc,          \* formatter harness: position
    pc,           \* command: position of run / runSavedQuery
    cmd,          \* command: "run" or "runSavedQuery"
    editor,       \* command: activeTextEditor, Undefined or Def([text, viewColumn])
    config,       \* command: the savedQueries configuration, Undefined or Def(list)
    jsonObject,   \* command: what getJsonObject returned
    input,        \* command: what showInputBox returned, Undefined or Def(query)
    picked,       \* command: index of the quick pick the user chose, 0 for none
    selectedQuery,\* command: what selectSavedQuery returned
    queryResult,  \* command: what processQuery returned, <<status, result>>
    log,          \* command: the host, engine and formatter calls made so far
    language,     \* showContent: language of the result document
    uri,          \* showContent: the Uri handed to openTextDocument
    docText,      \* showContent: text of the opened document
    shownColumn,  \* showContent: view column the document was shown in
    tree,         \* recursive descent: the document walked
    stack,        \* recursive descent: paths of the nodes still to visit, top last
    emitted       \* recursive descent: paths of the nodes emitted so far

fmtVars == <<parsed, given, fpc>>
cmdVars == <<cmd, editor, config, jsonObject, input, picked, selectedQuery,
             queryResult>>
docVars == <<language, uri, docText, shownColumn>>
walkVars == <<tree, stack, emitted>>
vars == <<results, createJson, content, parsed, given, fpc,
          pc, cmd, editor, config, jsonObject, input, picked, selectedQuery,
          queryResult, log, language, uri, docText, shownColumn,
          tree, stack, emitted>>

(***************************************************************************)
(* Bounds                                                                  *)
(***************************************************************************)
MaxNodes == 3     \* nodes in an exhaustively enumerated match list
MaxLen == 3       \* length of a match list over the sample values

(***************************************************************************)
(* Code units (String.fromCharCode) and text                               *)
(***************************************************************************)
TRange(s) == {s[i] : i \in 1..Len(s)}

At(txt, i) == IF i \in 1..Len(txt) THEN txt[i] ELSE ""

\* the name of a code unit TLA+ cannot write
UName(code) ==
    LET hex == <<"0", "1", "2", "3", "4", "5", "6", "7", "8", "9",
                 "A", "B", "C", "D", "E", "F">>
    IN "U+" \o hex[code \div 4096 + 1] \o hex[((code \div 256) % 16) + 1]
            \o hex[((code \div 16) % 16) + 1] \o hex[(code % 16) + 1]

\* the code units 0 to 127
Ascii ==
    <<"U+0000", "U+0001", "U+0002", "U+0003", "U+0004", "U+0005", "U+0006", "U+0007",
      "U+0008", "\t", "\n", "U+000B", "\f", "\r", "U+000E", "U+000F",
      "U+0010", "U+0011", "U+0012", "U+0013", "U+0014", "U+0015", "U+0016", "U+0017",
      "U+0018", "U+0019", "U+001A", "U+001B", "U+001C", "U+001D", "U+001E", "U+001F",
      " ", "!", "\"", "#", "$", "%", "&", "'",
      "(", ")", "*", "+", ",", "-", ".", "/",
      "0", "1", "2", "3", "4", "5", "6", "7",
      "8", "9", ":", ";", "<", "=", ">", "?",
      "@", "A", "B", "C", "D", "E", "F", "G",
      "H", "I", "J", "K", "L", "M", "N", "O",
      "P", "Q", "R", "S", "T", "U", "V", "W",
      "X", "Y", "Z", "[", "\\", "]", "^", "_",
      "U+0060", "a", "b", "c", "d", "e", "f", "g",
      "h", "i", "j", "k", "l", "m", "n", "o",
      "p", "q", "r", "s", "t", "u", "v", "w",
      "x", "y", "z", "{", "|", "}", "~", "U+007F">>

CharOfCode(code) == IF code < 128 THEN Ascii[code + 1] ELSE UName(code)

ControlChars == {Ascii[i] : i \in 1..32}
ControlCode(c) == CHOOSE code \in 0..31 : Ascii[code + 1] = c

LeadSurrogates == {UName(code) : code \in 55296..56319}
TrailSurrogates == {UName(code) : code \in 56320..57343}
SurrogateCode(c) == CHOOSE code \in 55296..57343 : UName(code) = c


HexChars == <<"0", "1", "2", "3", "4", "5", "6", "7", "8", "9",
              "a", "b", "c", "d", "e", "f", "A", "B", "C", "D", "E", "F">>
IsHex(c) == c \in TRange(HexChars)
HexVal(c) ==
    LET i == CHOOSE k \in 1..Len(HexChars) : HexChars[k] = c
    IN IF i <= 16 THEN i - 1 ELSE i - 7

(***************************************************************************)
(* Array.prototype.join, which _.join calls                                *)
(***************************************************************************)
RECURSIVE join(_, _)
join(parts, sep) ==
    IF parts = <<>> THEN <<>>
    ELSE IF Len(parts) = 1 THEN parts[1]
    ELSE parts[1] \o sep \o join(Tail(parts), sep)

(***************************************************************************)
(* Numbers                                                                 *)
(***************************************************************************)
DigitChars == <<"0", "1", "2", "3", "4", "5", "6", "7", "8", "9">>
DigitChar(d) == DigitChars[d + 1]
IsDigit(c) == c \in TRange(DigitChars)
DigitVal(c) == CHOOSE d \in 0..9 : DigitChars[d + 1] = c

RECURSIVE DigitsOf(_)
DigitsOf(n) ==
    IF n < 10 THEN <<DigitChar(n)>>
    ELSE DigitsOf(n \div 10) \o <<DigitChar(n % 10)>>

Zeros(n) == [i \in 1..n |-> "0"]

Finite(neg, ds, n) == <<"finite", neg, ds, n>>
Infinite(neg) == <<"infinite", neg, <<>>, 0>>

\* the element of a set of one element: a value that is used many times is
\* written v \in {e}, to be computed once
TheOne(S) == CHOOSE v \in S : TRUE

(***************************************************************************)
(* Whole numbers of any size, for the arithmetic of doubles: the limbs of  *)
(* a number are its digits in base 10000, the lowest first, with no zero   *)
(* limb on top; zero has no limb.                                          *)
(***************************************************************************)
Base == 10000

RECURSIVE TopLimb(_, _)
TopLimb(W, i) == IF i = 0 THEN 0 ELSE IF W[i] # 0 THEN i ELSE TopLimb(W, i - 1)

Trim(W) == SubSeq(W, 1, TopLimb(W, Len(W)))

\* the limbs of the number written with the decimal digits ds
LimbsOf(ds) ==
    LET place(r) == IF r < Len(ds) THEN DigitVal(ds[Len(ds) - r]) ELSE 0
    IN Trim([i \in 1..((Len(ds) + 3) \div 4) |->
                place(4 * i - 4) + 10 * place(4 * i - 3)
                + 100 * place(4 * i - 2) + 1000 * place(4 * i - 1)])

\* limb i of W * c before the carries, for 0 < c <= Base: the low part of
\* its own product and the high part of the product below
Product(W, c, i) ==
    (IF i <= Len(W) THEN (W[i] * c) % Base ELSE 0)
    + (IF i > 1 THEN (W[i - 1] * c) \div Base ELSE 0)

\* the carry into limb i of W * c
RECURSIVE CarryInto(_, _, _)
CarryInto(W, c, i) ==
    IF i = 1 THEN 0
    ELSE IF Product(W, c, i - 1) >= Base THEN 1
    ELSE IF Product(W, c, i - 1) = Base - 1 THEN CarryInto(W, c, i - 1)
    ELSE 0

\* W * c for 0 < c <= Base
MulSmall(W, c) ==
    Trim([i \in 1..(Len(W) + 1) |-> (Product(W, c, i) + CarryInto(W, c, i)) % Base])

\* W * c^j by halves of j, for c^most <= Base
RECURSIVE TimesPower(_, _, _, _)
TimesPower(W, c, most, j) ==
    IF j <= most THEN MulSmall(W, c ^ j)
    ELSE TheOne({TimesPower(V, c, most, (j + 1) \div 2) :
                 V \in {TimesPower(W, c, most, j \div 2)}})

\* the lowest limb of W that differs from d, Len(W) + 1 if there is none
RECURSIVE FirstOther(_, _, _)
FirstOther(W, d, i) ==
    IF i > Len(W) THEN i ELSE IF W[i] # d THEN i ELSE FirstOther(W, d, i + 1)

\* W + 1
Increment(W) ==
    Trim([i \in 1..(Len(W) + 1) |->
             IF i < FirstOther(W, Base - 1, 1) THEN 0
             ELSE IF i = FirstOther(W, Base - 1, 1)
             THEN (IF i > Len(W) THEN 1 ELSE W[i] + 1)
             ELSE IF i > Len(W) THEN 0
             ELSE W[i]])

\* W - 1, for W above zero
Decrement(W) ==
    Trim([i \in 1..Len(W) |->
             IF i < FirstOther(W, 0, 1) THEN Base - 1
             ELSE IF i = FirstOther(W, 0, 1) THEN W[i] - 1
             ELSE W[i]])

\* -1, 0 or 1 as a is below, equal to or above b, from limb i down
RECURSIVE CompareFrom(_, _, _)
CompareFrom(a, b, i) ==
    IF i = 0 THEN 0
    ELSE IF a[i] < b[i] THEN 0 - 1
    ELSE IF a[i] > b[i] THEN 1
    ELSE CompareFrom(a, b, i - 1)

\* W * 2^e2 * 10^e10, for W above zero, as limbs / Base^shift: a negative
\* power of two is a power of five and a decimal shift, and a decimal shift
\* to the right is filled up to whole limbs
Scaled(W, e2, e10) ==
    LET places == IF e2 >= 0 THEN e10 ELSE e10 + e2
        fill == (4 - ((0 - places) % 4)) % 4
        left == IF places >= 0 THEN places ELSE fill
    IN TheOne({[limbs |-> [i \in 1..(left \div 4) |-> 0] \o MulSmall(V, 10 ^ (left % 4)),
                shift |-> IF places >= 0 THEN 0 ELSE ((0 - places) + fill) \div 4] :
               V \in {IF e2 >= 0 THEN TimesPower(W, 2, 13, e2)
                      ELSE TimesPower(W, 5, 5, 0 - e2)}})

\* the integer part of W / Base^a
IntegerPart(W, a) == SubSeq(W, a + 1, Len(W))

(***************************************************************************)
(* The double nearest to a decimal (ties to the even significand), as the  *)
(* record of its significand and exponent, the double being                *)
(* significand * 2^exponent: the significand has 53 bits, or fewer with    *)
(* the exponent -1074 for a subnormal double or zero.                      *)
(***************************************************************************)
TwoTo52 == <<496, 2737, 5996, 4503>>      \* 4503599627370496
TwoTo53 == <<992, 5474, 1992, 9007>>      \* 9007199254740992
MinExponent == 0 - 1074

\* the double nearest to (W / Base^a) * 2^e: the exponent is raised until
\* the integer part has at most 53 bits, and the fraction is rounded, a half
\* to the even significand
RECURSIVE RoundToDouble(_, _, _)
RoundToDouble(W, a, e) ==
    LET half == IF a = 0 \/ Len(W) < a THEN 0 - 1
                ELSE IF W[a] < Base \div 2 THEN 0 - 1
                ELSE IF W[a] > Base \div 2 THEN 1
                ELSE IF \E i \in 1..(a - 1) : W[i] # 0 THEN 1
                ELSE 0
        odd == a < Len(W) /\ W[a + 1] % 2 = 1
        m == IF half = 1 \/ (half = 0 /\ odd) THEN Increment(IntegerPart(W, a))
             ELSE IntegerPart(W, a)
    IN IF Len(W) - a > 4
          \/ (Len(W) - a = 4 /\ CompareFrom(IntegerPart(W, a), TwoTo53, 4) >= 0)
       THEN TheOne({RoundToDouble(V, a + 1, e + 1) : V \in {MulSmall(W, Base \div 2)}})
       ELSE IF m = TwoTo53 THEN [significand |-> TwoTo52, exponent |-> e + 1]
       ELSE [significand |-> m, exponent |-> e]

\* the double nearest to 0.digits * 10^n, for -324 < n < 310; the rounding
\* starts at an exponent not above the one of the double, the logarithm of
\* 10 to the base 2 being 3.321928...
NearestDouble(digits, n) ==
    LET guess == (((n - 1) * 3321928) \div 1000000) - 54
        low == IF guess < MinExponent THEN MinExponent ELSE guess
    IN TheOne({RoundToDouble(X.limbs, X.shift, low) :
               X \in {Scaled(LimbsOf(digits), 0 - low, n - Len(digits))}})

(***************************************************************************)
(* The digits Number::toString writes for a double: the shortest decimal   *)
(* that is read back as this double and, of these, the one nearest to it.  *)
(* The decimals read back as the double are those between the midpoints to *)
(* its two neighbours (the midpoints themselves when the significand is    *)
(* even).  A decimal is the record of its digits ds, with no trailing      *)
(* zero, and the position n of its point, the number 0.ds * 10^n.          *)
(***************************************************************************)
RECURSIVE LastNonZero(_, _)
LastNonZero(ds, i) ==
    IF i = 0 THEN 0 ELSE IF ds[i] # "0" THEN i ELSE LastNonZero(ds, i - 1)

Decimal(ds, n) == [digits |-> SubSeq(ds, 1, LastNonZero(ds, Len(ds))), point |-> n]

\* the decimal of W * 2^e
ExactDecimal(W, e) ==
    LET count(V) == IF V[Len(V)] >= 1000 THEN 4 * Len(V)
                    ELSE IF V[Len(V)] >= 100 THEN 4 * Len(V) - 1
                    ELSE IF V[Len(V)] >= 10 THEN 4 * Len(V) - 2
                    ELSE 4 * Len(V) - 3
        digit(V, r) == DigitChar((V[(r \div 4) + 1] \div (10 ^ (r % 4))) % 10)
    IN TheOne({Decimal([j \in 1..count(X.limbs) |-> digit(X.limbs, count(X.limbs) - j)],
                       count(X.limbs) - 4 * X.shift) :
               X \in {Scaled(W, e, 0)}})

\* -1, 0 or 1 as the digits xs are below, equal to or above ys
RECURSIVE CompareDigits(_, _, _)
CompareDigits(xs, ys, i) ==
    IF i > Len(xs) /\ i > Len(ys) THEN 0
    ELSE IF i > Len(xs) THEN 0 - 1
    ELSE IF i > Len(ys) THEN 1
    ELSE IF DigitVal(xs[i]) < DigitVal(ys[i]) THEN 0 - 1
    ELSE IF DigitVal(xs[i]) > DigitVal(ys[i]) THEN 1
    ELSE CompareDigits(xs, ys, i + 1)

\* the last position of a digit below 9, 0 if there is none
RECURSIVE LastBelowNine(_, _)
LastBelowNine(ds, i) ==
    IF i = 0 THEN 0 ELSE IF ds[i] # "9" THEN i ELSE LastBelowNine(ds, i - 1)

\* the decimal of k digits or more that lies between lo and hi and is
\* nearest to v, a tie going to the even digit: of the decimals of k digits
\* the one below v and the one next above it are tried
RECURSIVE ShortestFrom(_, _, _, _, _)
ShortestFrom(k, v, lo, hi, closed) ==
    LET compare(x, y) == IF x.point < y.point THEN 0 - 1
                         ELSE IF x.point > y.point THEN 1
                         ELSE CompareDigits(x.digits, y.digits, 1)
        first == SubSeq(v.digits, 1, k)
        last == LastBelowNine(first, k)
        below == Decimal(first, v.point)
        above == IF last = 0 THEN Decimal(<<"1">>, v.point + 1)
                 ELSE Decimal(SubSeq(first, 1, last - 1)
                              \o <<DigitChar(DigitVal(first[last]) + 1)>>, v.point)
        inBelow == compare(lo, below) < 0 \/ (closed /\ compare(lo, below) = 0)
        inAbove == compare(above, hi) < 0 \/ (closed /\ compare(above, hi) = 0)
        next == DigitVal(v.digits[k + 1])
    IN IF k >= Len(v.digits) THEN v
       ELSE IF inBelow /\ inAbove
       THEN IF next < 5 THEN below
            ELSE IF next = 5 /\ Len(v.digits) = k + 1 /\ DigitVal(v.digits[k]) % 2 = 0
            THEN below
            ELSE above
       ELSE IF inBelow THEN below
       ELSE IF inAbove THEN above
       ELSE ShortestFrom(k + 1, v, lo, hi, closed)

\* the Number of a double d: zero, Infinity above the exponent 971, or the
\* shortest decimal between the midpoints, which are four times the
\* significand less and plus the half gap to the neighbour (the gap below
\* the least significand of 53 bits is half the gap above it)
NumberOfDouble(neg, d) ==
    LET m == d.significand
        e == d.exponent
        low == IF m = TwoTo52 /\ e > MinExponent THEN Decrement(MulSmall(m, 4))
               ELSE Decrement(Decrement(MulSmall(m, 4)))
        high == Increment(Increment(MulSmall(m, 4)))
    IN IF m = <<>> THEN Finite(neg, <<>>, 0)
       ELSE IF e > 971 THEN Infinite(neg)
       ELSE TheOne({Finite(neg, s.digits, s.point) :
                    s \in {ShortestFrom(1, v, lo, hi, m[1] % 2 = 0) :
                           v \in {ExactDecimal(MulSmall(m, 4), e - 2)},
                           lo \in {ExactDecimal(low, e - 2)},
                           hi \in {ExactDecimal(high, e - 2)}}})

RECURSIVE FirstNonZero(_, _)
FirstNonZero(ds, i) ==
    IF i > Len(ds) THEN i ELSE IF ds[i] # "0" THEN i ELSE FirstNonZero(ds, i + 1)

\* the Number a decimal 0.digits * 10^n is read as (StringToDouble): the
\* double nearest to it, Infinity beyond the doubles, zero below them.  A
\* decimal of up to 15 digits in the range of the normal doubles is itself
\* the shortest decimal of the double nearest to it.
ToNumber(neg, digits, n) ==
    LET first == FirstNonZero(digits, 1)
        read(ds, p) ==
            IF p > 309 THEN Infinite(neg)
            ELSE IF p < 0 - 323 THEN Finite(neg, <<>>, 0)
            ELSE IF Len(ds) <= 15 /\ p >= 0 - 306 /\ p <= 308 THEN Finite(neg, ds, p)
            ELSE TheOne({NumberOfDouble(neg, d) : d \in {NearestDouble(ds, p)}})
    IN IF first > Len(digits) THEN Finite(neg, <<>>, 0)
       ELSE TheOne({read(ds, n - (first - 1)) :
                    ds \in {SubSeq(digits, first, LastNonZero(digits, Len(digits)))}})


(***************************************************************************)
(* Number.prototype.toString(): ECMAScript Number::toString, radix 10.     *)
(* With k digits and the decimal point at n: an integer of up to 21        *)
(* digits is written out, a fraction down to 1e-6 is written with a        *)
(* point, anything else in exponent form.                                  *)
(***************************************************************************)
NumberToString(x) ==
    LET neg == x[2]
        ds == x[3]
        n == x[4]
        k == Len(ds)
        sign == IF neg THEN <<"-">> ELSE <<>>
        e == n - 1
        exponent == <<"e", (IF e < 0 THEN "-" ELSE "+")>>
                    \o DigitsOf(IF e < 0 THEN 0 - e ELSE e)
    IN IF x[1] = "infinite"
       THEN sign \o <<"I", "n", "f", "i", "n", "i", "t", "y">>
       ELSE IF ds = <<>> THEN <<"0">>
       ELSE IF k <= n /\ n <= 21 THEN sign \o ds \o Zeros(n - k)
       ELSE IF 0 < n /\ n <= 21
       THEN sign \o SubSeq(ds, 1, n) \o <<".">> \o SubSeq(ds, n + 1, k)
       ELSE IF 0 - 6 < n /\ n <= 0 THEN sign \o <<"0", ".">> \o Zeros(0 - n) \o ds
       ELSE IF k = 1 THEN sign \o ds \o exponent
       ELSE sign \o <<ds[1], ".">> \o Tail(ds) \o exponent

(***************************************************************************)
(* JSON values                                                             *)
(***************************************************************************)
Undefined == <<>>
Def(x) == <<x>>

JNull == <<"null", 0>>
JBool(b) == <<"bool", b>>
\* the number value of an integer of the model
JNum(i) ==
    <<"num", IF i < 0 THEN ToNumber(TRUE, DigitsOf(0 - i), Len(DigitsOf(0 - i)))
             ELSE ToNumber(FALSE, DigitsOf(i), Len(DigitsOf(i)))>>
JDec(neg, ds, n) == <<"num", ToNumber(neg, ds, n)>>
JStr(s) == <<"str", s>>
JArr(elems) == <<"arr", elems>>
JObj(members) == <<"obj", members>>

Tag(v) == v[1]
Payload(v) == v[2]

(***************************************************************************)
(* JSON.stringify(value, null, space): ECMAScript SerializeJSONProperty,   *)
(* QuoteJSONString, SerializeJSONArray and SerializeJSONObject.  gap is    *)
(* the indentation unit (empty for the compact form), indent the current   *)
(* indentation.                                                            *)
(***************************************************************************)
\* \uXXXX with lower-case hexadecimal digits
UnicodeEscape(code) ==
    LET hex == <<"0", "1", "2", "3", "4", "5", "6", "7", "8", "9",
                 "a", "b", "c", "d", "e", "f">>
    IN <<"\\", "u", hex[code \div 4096 + 1], hex[((code \div 256) % 16) + 1],
         hex[((code \div 16) % 16) + 1], hex[(code % 16) + 1]>>

\* the quoting of a code unit that is not half of a surrogate pair
QuoteChar(c) ==
    IF c = "\"" THEN <<"\\", "\"">>
    ELSE IF c = "\\" THEN <<"\\", "\\">>
    ELSE IF c = Ascii[9] THEN <<"\\", "b">>
    ELSE IF c = "\f" THEN <<"\\", "f">>
    ELSE IF c = "\n" THEN <<"\\", "n">>
    ELSE IF c = "\r" THEN <<"\\", "r">>
    ELSE IF c = "\t" THEN <<"\\", "t">>
    ELSE IF c \in ControlChars THEN UnicodeEscape(ControlCode(c))
    ELSE IF c \in LeadSurrogates \cup TrailSurrogates
    THEN UnicodeEscape(SurrogateCode(c))
    ELSE <<c>>

\* the code points of s from position i on: a surrogate pair is one code
\* point and is copied, any other code unit is quoted on its own
RECURSIVE QuoteCodePoints(_, _)
QuoteCodePoints(s, i) ==
    IF i > Len(s) THEN <<>>
    ELSE IF s[i] \in LeadSurrogates /\ At(s, i + 1) \in TrailSurrogates
    THEN <<s[i], s[i + 1]>> \o QuoteCodePoints(s, i + 2)
    ELSE QuoteChar(s[i]) \o QuoteCodePoints(s, i + 1)

QuoteJSONString(s) == <<"\"">> \o QuoteCodePoints(s, 1) \o <<"\"">>

\* A serializer without the special case for an empty array or object.
BracketsAlwaysBroken(open, parts, close, gap, indent) ==
    IF gap = <<>> THEN <<open>> \o join(parts, <<",">>) \o <<close>>
    ELSE <<open, "\n">> \o indent \o gap
         \o join(parts, <<",", "\n">> \o indent \o gap)
         \o <<"\n">> \o indent \o <<close>>

Brackets(open, parts, close, gap, indent) ==
    IF parts = <<>> THEN <<open, close>>
    ELSE IF gap = <<>> THEN <<open>> \o join(parts, <<",">>) \o <<close>>
    ELSE <<open, "\n">> \o indent \o gap
         \o join(parts, <<",", "\n">> \o indent \o gap)
         \o <<"\n">> \o indent \o <<close>>

RECURSIVE SerializeJSONProperty(_, _, _)
SerializeJSONArray(value, gap, indent) ==
    Brackets("[",
             [i \in 1..Len(Payload(value)) |->
                 SerializeJSONProperty(Payload(value)[i], gap, indent \o gap)],
             "]", gap, indent)

SerializeJSONObject(value, gap, indent) ==
    Brackets("{",
             [i \in 1..Len(Payload(value)) |->
                 QuoteJSONString(Payload(value)[i][1]) \o <<":">>
                 \o (IF gap = <<>> THEN <<>> ELSE <<" ">>)
                 \o SerializeJSONProperty(Payload(value)[i][2], gap, indent \o gap)],
             "}", gap, indent)

SerializeJSONProperty(value, gap, indent) ==
    CASE Tag(value) = "null" -> <<"n", "u", "l", "l">>
      [] Tag(value) = "bool" ->
            IF Payload(value) THEN <<"t", "r", "u", "e">>
            ELSE <<"f", "a", "l", "s", "e">>
      [] Tag(value) = "num" ->
            IF Payload(value)[1] = "finite" THEN NumberToString(Payload(value))
            ELSE <<"n", "u", "l", "l">>
      [] Tag(value) = "str" -> QuoteJSONString(Payload(value))
      [] Tag(value) = "arr" -> SerializeJSONArray(value, gap, indent)
      [] Tag(value) = "obj" -> SerializeJSONObject(value, gap, indent)

\* the gap is space blanks
JSONstringify(value, space) ==
    SerializeJSONProperty(value, [i \in 1..space |-> " "], <<>>)

(***************************************************************************)
(* JSON.parse(text): the ECMAScript JSON grammar.  A parse step returns    *)
(* <<ok, value, next>>.  An object's members are created in parse order    *)
(* with CreateDataProperty, so they end in the engine's property order:    *)
(* array-index keys first, in ascending order, then the other keys in      *)
(* creation order; a repeated key keeps its place and takes the last       *)
(* value.                                                                  *)
(***************************************************************************)
ParseFail == <<FALSE, JNull, 0>>
ParseOk(v, next) == <<TRUE, v, next>>

IsWhitespace(c) == c \in {" ", "\n", "\t", "\r"}

RECURSIVE SkipWs(_, _)
SkipWs(txt, i) == IF IsWhitespace(At(txt, i)) THEN SkipWs(txt, i + 1) ELSE i

MatchAt(txt, i, lit) ==
    /\ i + Len(lit) - 1 <= Len(txt)
    /\ SubSeq(txt, i, i + Len(lit) - 1) = lit

\* the value of a short run of decimal digits
RECURSIVE StringToNumber(_)
StringToNumber(ds) ==
    IF ds = <<>> THEN 0
    ELSE 10 * StringToNumber(SubSeq(ds, 1, Len(ds) - 1)) + DigitVal(ds[Len(ds)])

\* a < b for two canonical numeric strings
RECURSIVE DigitsBefore(_, _, _)
DigitsBefore(a, b, i) ==
    IF i > Len(a) THEN FALSE
    ELSE IF DigitVal(a[i]) < DigitVal(b[i]) THEN TRUE
    ELSE IF DigitVal(a[i]) > DigitVal(b[i]) THEN FALSE
    ELSE DigitsBefore(a, b, i + 1)

IndexLess(a, b) == Len(a) < Len(b) \/ (Len(a) = Len(b) /\ DigitsBefore(a, b, 1))

\* an array index: a canonical numeric string below 2^32 - 1 = 4294967295
IsArrayIndex(key) ==
    /\ key # <<>>
    /\ \A i \in 1..Len(key) : IsDigit(key[i])
    /\ (key[1] = "0" => Len(key) = 1)
    /\ IndexLess(key, <<"4", "2", "9", "4", "9", "6", "7", "2", "9", "5">>)

CreateDataProperty(members, key, val) ==
    IF \E i \in 1..Len(members) : members[i][1] = key
    THEN [i \in 1..Len(members) |->
             IF members[i][1] = key THEN <<key, val>> ELSE members[i]]
    ELSE IF IsArrayIndex(key)
    THEN LET p == Cardinality({i \in 1..Len(members) :
                        /\ IsArrayIndex(members[i][1])
                        /\ IndexLess(members[i][1], key)})
         IN SubSeq(members, 1, p) \o << <<key, val>> >>
            \o SubSeq(members, p + 1, Len(members))
    ELSE Append(members, <<key, val>>)

\* the code unit a single-character escape stands for
Unescape(c) ==
    CASE c = "b" -> Ascii[9]
      [] c = "f" -> "\f"
      [] c = "n" -> "\n"
      [] c = "r" -> "\r"
      [] c = "t" -> "\t"
      [] OTHER -> c

\* the value of the four hexadecimal digits of a \u escape from position i on
Hex4Val(txt, i) ==
    4096 * HexVal(txt[i]) + 256 * HexVal(txt[i + 1])
    + 16 * HexVal(txt[i + 2]) + HexVal(txt[i + 3])

RECURSIVE ParseChars(_, _, _)
ParseChars(txt, i, acc) ==
    LET c == At(txt, i) IN
    IF c = "" \/ c \in ControlChars THEN ParseFail
    ELSE IF c = "\"" THEN ParseOk(JStr(acc), i + 1)
    ELSE IF c = "\\"
    THEN IF At(txt, i + 1) \in {"\"", "\\", "/", "b", "f", "n", "r", "t"}
         THEN ParseChars(txt, i + 2, Append(acc, Unescape(At(txt, i + 1))))
         ELSE IF At(txt, i + 1) = "u" /\ \A j \in 2..5 : IsHex(At(txt, i + j))
         THEN ParseChars(txt, i + 6, Append(acc, CharOfCode(Hex4Val(txt, i + 2))))
         ELSE ParseFail
    ELSE ParseChars(txt, i + 1, Append(acc, c))

ParseString(txt, i) ==
    IF At(txt, i) = "\"" THEN ParseChars(txt, i + 1, <<>>) ELSE ParseFail

RECURSIVE DigitsEnd(_, _)
DigitsEnd(txt, i) == IF IsDigit(At(txt, i)) THEN DigitsEnd(txt, i + 1) ELSE i

RECURSIVE DropZeros(_)
DropZeros(ds) == IF ds # <<>> /\ ds[1] = "0" THEN DropZeros(Tail(ds)) ELSE ds

\* the value of the digits of an exponent; past six digits the number is
\* Infinity or zero whatever the exponent is, and 1000000 stands for it
ExponentOf(ds) ==
    IF Len(DropZeros(ds)) > 6 THEN 1000000 ELSE StringToNumber(DropZeros(ds))

\* -? int frac? exp?
ParseNumber(txt, i) ==
    LET neg == At(txt, i) = "-"
        first == IF neg THEN i + 1 ELSE i
        intEnd == DigitsEnd(txt, first)
        hasFrac == At(txt, intEnd) = "."
        fracEnd == IF hasFrac THEN DigitsEnd(txt, intEnd + 1) ELSE intEnd
        hasExp == At(txt, fracEnd) \in {"e", "E"}
        expNeg == At(txt, fracEnd + 1) = "-"
        expFirst == IF At(txt, fracEnd + 1) \in {"+", "-"}
                    THEN fracEnd + 2 ELSE fracEnd + 1
        expEnd == IF hasExp THEN DigitsEnd(txt, expFirst) ELSE fracEnd
        exp == IF ~hasExp THEN 0
               ELSE IF expNeg THEN 0 - ExponentOf(SubSeq(txt, expFirst, expEnd - 1))
               ELSE ExponentOf(SubSeq(txt, expFirst, expEnd - 1))
    IN IF intEnd = first THEN ParseFail
       ELSE IF At(txt, first) = "0" /\ intEnd > first + 1 THEN ParseFail
       ELSE IF hasFrac /\ fracEnd = intEnd + 1 THEN ParseFail
       ELSE IF hasExp /\ expEnd = expFirst THEN ParseFail
       ELSE ParseOk(JDec(neg,
                         SubSeq(txt, first, intEnd - 1)
                         \o (IF hasFrac THEN SubSeq(txt, intEnd + 1, fracEnd - 1)
                             ELSE <<>>),
                         (intEnd - first) + exp),
                    expEnd)

RECURSIVE ParseValue(_, _), ParseElements(_, _, _), ParseMembers(_, _, _)
ParseValue(txt, i0) ==
    LET i == SkipWs(txt, i0)
        c == At(txt, i)
    IN CASE c = "{" ->
              IF At(txt, SkipWs(txt, i + 1)) = "}"
              THEN ParseOk(JObj(<<>>), SkipWs(txt, i + 1) + 1)
              ELSE ParseMembers(txt, i + 1, <<>>)
         [] c = "[" ->
              IF At(txt, SkipWs(txt, i + 1)) = "]"
              THEN ParseOk(JArr(<<>>), SkipWs(txt, i + 1) + 1)
              ELSE ParseElements(txt, i + 1, <<>>)
         [] c = "\"" -> ParseString(txt, i)
         [] c = "-" \/ IsDigit(c) -> ParseNumber(txt, i)
         [] c = "t" -> IF MatchAt(txt, i, <<"t", "r", "u", "e">>)
                       THEN ParseOk(JBool(TRUE), i + 4) ELSE ParseFail
         [] c = "f" -> IF MatchAt(txt, i, <<"f", "a", "l", "s", "e">>)
                       THEN ParseOk(JBool(FALSE), i + 5) ELSE ParseFail
         [] c = "n" -> IF MatchAt(txt, i, <<"n", "u", "l", "l">>)
                       THEN ParseOk(JNull, i + 4) ELSE ParseFail
         [] OTHER -> ParseFail

ParseElements(txt, i, acc) ==
    LET r == ParseValue(txt, i) IN
    IF ~r[1] THEN ParseFail
    ELSE LET j == SkipWs(txt, r[3])
         IN IF At(txt, j) = "," THEN ParseElements(txt, j + 1, Append(acc, r[2]))
            ELSE IF At(txt, j) = "]" THEN ParseOk(JArr(Append(acc, r[2])), j + 1)
            ELSE ParseFail

ParseMembers(txt, i, acc) ==
    LET k == ParseString(txt, SkipWs(txt, i)) IN
    IF ~k[1] THEN ParseFail
    ELSE LET c == SkipWs(txt, k[3]) IN
         IF At(txt, c) # ":" THEN ParseFail
         ELSE LET r == ParseValue(txt, c + 1) IN
              IF ~r[1] THEN ParseFail
              ELSE LET j == SkipWs(txt, r[3])
                       ms == CreateDataProperty(acc, Payload(k[2]), r[2])
                   IN IF At(txt, j) = "," THEN ParseMembers(txt, j + 1, ms)
                      ELSE IF At(txt, j) = "}" THEN ParseOk(JObj(ms), j + 1)
                      ELSE ParseFail

SyntaxError == <<"SyntaxError", JNull>>

JSONparse(txt) ==
    LET r == ParseValue(txt, 1) IN
    IF r[1] /\ SkipWs(txt, r[3]) = Len(txt) + 1 THEN <<"ok", r[2]>>
    ELSE SyntaxError

(***************************************************************************)
(* decodeURIComponent(str): ECMAScript Decode with no reserved set.  An    *)
(* escape %XY is one octet; an octet below 128 is its code unit, a higher  *)
(* one starts a UTF-8 sequence of two to four escapes, decoded to a code   *)
(* point and written as one code unit or a surrogate pair.  A "%" that     *)
(* does not start an escape, or octets that are no UTF-8, are URIError.    *)
(* A decoding returns <<ok, text>>.                                        *)
(***************************************************************************)
DecodeThen(prefix, r) == IF r[1] THEN <<TRUE, prefix \o r[2]>> ELSE r

\* the octet of the escape at position i, -1 if there is no escape
OctetAt(str, i) ==
    IF At(str, i) = "%" /\ IsHex(At(str, i + 1)) /\ IsHex(At(str, i + 2))
    THEN 16 * HexVal(str[i + 1]) + HexVal(str[i + 2])
    ELSE 0 - 1

\* how many octets a UTF-8 sequence starting with B has, 0 for no sequence
SequenceLength(B) ==
    IF B < 128 THEN 1
    ELSE IF B \in 192..223 THEN 2
    ELSE IF B \in 224..239 THEN 3
    ELSE IF B \in 240..247 THEN 4
    ELSE 0

\* the code point of the n escapes at position i, -1 if they are not the
\* UTF-8 encoding of a code point
CodePointAt(str, i, n) ==
    LET B == OctetAt(str, i)
        c(j) == OctetAt(str, i + 3 * j)
        continued == \A j \in 1..(n - 1) : c(j) \in 128..191
        V == IF n = 2 THEN (B - 192) * 64 + (c(1) - 128)
             ELSE IF n = 3 THEN (B - 224) * 4096 + (c(1) - 128) * 64 + (c(2) - 128)
             ELSE (B - 240) * 262144 + (c(1) - 128) * 4096 + (c(2) - 128) * 64
                  + (c(3) - 128)
    IN IF ~continued THEN 0 - 1
       ELSE IF n = 2 /\ V >= 128 THEN V
       ELSE IF n = 3 /\ V >= 2048 /\ V \notin 55296..57343 THEN V
       ELSE IF n = 4 /\ V >= 65536 /\ V <= 1114111 THEN V
       ELSE 0 - 1

UTF16EncodeCodePoint(V) ==
    IF V < 65536 THEN <<CharOfCode(V)>>
    ELSE <<CharOfCode(55296 + ((V - 65536) \div 1024)),
           CharOfCode(56320 + ((V - 65536) % 1024))>>

RECURSIVE Decode(_, _)
Decode(str, k) ==
    IF k > Len(str) THEN <<TRUE, <<>>>>
    ELSE IF str[k] # "%" THEN DecodeThen(<<str[k]>>, Decode(str, k + 1))
    ELSE LET B == OctetAt(str, k)
             n == SequenceLength(B)
         IN IF B < 0 \/ n = 0 THEN <<FALSE, <<>>>>
            ELSE IF n = 1 THEN DecodeThen(<<CharOfCode(B)>>, Decode(str, k + 3))
            ELSE IF CodePointAt(str, k, n) < 0 THEN <<FALSE, <<>>>>
            ELSE DecodeThen(UTF16EncodeCodePoint(CodePointAt(str, k, n)),
                            Decode(str, k + 3 * n))

decodeURIComponent(str) == Decode(str, 1)

\* decodeURIComponent throws URIError
Malformed(str) == ~decodeURIComponent(str)[1]

(***************************************************************************)
(* vscode.Uri.parse(value), as DocProvider.encodeContent calls it.  The    *)
(* value is split by the URI regular expression of RFC 3986, appendix B    *)
(* (scheme up to ":", authority after "//" up to "/", "?" or "#", path up  *)
(* to "?" or "#", query after "?" up to "#", fragment after "#" up to the  *)
(* end of the line), and the authority, path, query and fragment are       *)
(* percent-decoded: each run of %XY groups, X and Y letters or digits, is  *)
(* replaced by its decoding, and a run that does not decode is kept three  *)
(* characters at a time (percentDecode and decodeURIComponentGraceful of   *)
(* the current host).  A host that applies decodeURIComponent to the whole *)
(* component throws URIError where that fails.                             *)
(***************************************************************************)
IsAlnum(c) ==
    c \in {"a", "b", "c", "d", "e", "f", "g", "h", "i", "j", "k", "l", "m", "n", "o",
           "p", "q", "r", "s", "t", "u", "v", "w", "x", "y", "z",
           "A", "B", "C", "D", "E", "F", "G", "H", "I", "J", "K", "L", "M", "N", "O",
           "P", "Q", "R", "S", "T", "U", "V", "W", "X", "Y", "Z",
           "0", "1", "2", "3", "4", "5", "6", "7", "8", "9"}

\* a match of %[0-9A-Za-z][0-9A-Za-z] at position i
EncodedAt(str, i) ==
    At(str, i) = "%" /\ IsAlnum(At(str, i + 1)) /\ IsAlnum(At(str, i + 2))

RECURSIVE EncodedRunEnd(_, _)
EncodedRunEnd(str, i) ==
    IF EncodedAt(str, i) THEN EncodedRunEnd(str, i + 3) ELSE i

RECURSIVE decodeURIComponentGraceful(_)
decodeURIComponentGraceful(str) ==
    IF ~Malformed(str) THEN decodeURIComponent(str)[2]
    ELSE IF Len(str) > 3
    THEN SubSeq(str, 1, 3) \o decodeURIComponentGraceful(SubSeq(str, 4, Len(str)))
    ELSE str

RECURSIVE percentDecodeFrom(_, _)
percentDecodeFrom(str, i) ==
    IF i > Len(str) THEN <<>>
    ELSE IF EncodedAt(str, i)
    THEN decodeURIComponentGraceful(SubSeq(str, i, EncodedRunEnd(str, i) - 1))
         \o percentDecodeFrom(str, EncodedRunEnd(str, i))
    ELSE <<str[i]>> \o percentDecodeFrom(str, i + 1)

percentDecode(str) == percentDecodeFrom(str, 1)

RECURSIVE FirstOf(_, _, _)
FirstOf(str, i, stops) ==
    IF i > Len(str) \/ str[i] \in stops THEN i ELSE FirstOf(str, i + 1, stops)

UriComponents(value) ==
    LET p == FirstOf(value, 1, {":", "/", "?", "#"})
        hasScheme == p > 1 /\ At(value, p) = ":"
        a0 == IF hasScheme THEN p + 1 ELSE 1
        hasAuth == At(value, a0) = "/" /\ At(value, a0 + 1) = "/"
        a1 == IF hasAuth THEN FirstOf(value, a0 + 2, {"/", "?", "#"}) ELSE a0
        p1 == FirstOf(value, a1, {"?", "#"})
        hasQuery == At(value, p1) = "?"
        q1 == IF hasQuery THEN FirstOf(value, p1 + 1, {"#"}) ELSE p1
        hasFrag == At(value, q1) = "#"
        f1 == IF hasFrag THEN FirstOf(value, q1 + 1, {"\n", "\r", "U+2028", "U+2029"})
              ELSE q1
    IN [scheme |-> IF hasScheme THEN SubSeq(value, 1, p - 1) ELSE <<>>,
        authority |-> IF hasAuth THEN SubSeq(value, a0 + 2, a1 - 1) ELSE <<>>,
        path |-> SubSeq(value, a1, p1 - 1),
        query |-> IF hasQuery THEN SubSeq(value, p1 + 1, q1 - 1) ELSE <<>>,
        fragment |-> IF hasFrag THEN SubSeq(value, q1 + 1, f1 - 1) ELSE <<>>]

UriParse(value) ==
    LET m == UriComponents(value)
    IN [scheme |-> m.scheme,
        authority |-> percentDecode(m.authority),
        path |-> percentDecode(m.path),
        query |-> percentDecode(m.query),
        fragment |-> percentDecode(m.fragment)]

\* what Uri.parse can do with value: <<"ok", uri>>, or <<"URIError", uri>> on
\* a host whose decoding throws
NoUri == [scheme |-> <<>>, authority |-> <<>>, path |-> <<>>, query |-> <<>>,
          fragment |-> <<>>]

UriParseOutcomes(value) ==
    LET m == UriComponents(value)
    IN {<<"ok", UriParse(value)>>}
       \cup (IF \E c \in {m.authority, m.path, m.query, m.fragment} : Malformed(c)
             THEN {<<"URIError", NoUri>>} ELSE {})

(***************************************************************************)
(* DocProvider                                                             *)
(***************************************************************************)
scheme == <<"j", "s", "o", "n", "p", "a", "t", "h">>

\* Uri.parse of the template literal `${DocProvider.scheme}://json-path?${query}`
encodeContent(query) ==
    UriParseOutcomes(scheme
                     \o <<":", "/", "/", "j", "s", "o", "n", "-", "p", "a", "t", "h", "?">>
                     \o query)

provideTextDocumentContent(encodedUri) == encodedUri.query

(***************************************************************************)
(* ResultFormatter                                                         *)
(***************************************************************************)
convertResultToString(result) ==
    IF Tag(result) = "str" THEN Payload(result)
    ELSE IF Tag(result) = "num" THEN NumberToString(Payload(result))
    ELSE JSONstringify(result, 0)

format(rs, asJson) ==
    IF asJson THEN JSONstringify(JArr(rs), 2)
    ELSE join([i \in 1..Len(rs) |-> convertResultToString(rs[i])], <<"\n">>)

(***************************************************************************)
(* Match lists the harness formats: every list of JSON values with at most *)
(* MaxNodes nodes in all over a small set of atoms and keys, every list of *)
(* at most MaxLen of the sample values, and lists of one or two matches    *)
(* with the numbers a document gives that no decimal of up to 15 digits    *)
(* names.  Objects are in property order.  The numbers of the samples are  *)
(* -7.5, 42, 1, -1.5e-7, 0, 1e+21, -0 and 120.5, the strings hold a quote, *)
(* a backslash, control characters and a lone surrogate.                   *)
(***************************************************************************)
Atoms == {JNull, JBool(TRUE), JDec(TRUE, <<"7", "5">>, 1), JStr(<<"x">>),
          JStr(<<"\"">>)}
Keys == {<<"b">>, <<"a">>, <<"1">>}

RECURSIVE Reinsert(_, _)
Reinsert(members, acc) ==
    IF members = <<>> THEN acc
    ELSE Reinsert(Tail(members),
                  CreateDataProperty(acc, members[1][1], members[1][2]))

InPropertyOrder(members) == Reinsert(members, <<>>) = members

RECURSIVE TreesOf(_, _, _), ForestsOf(_, _, _)
TreesOf(n, atoms, keys) ==
    IF n = 0 THEN {}
    ELSE (IF n = 1 THEN atoms ELSE {})
         \cup {JArr(f) : f \in ForestsOf(n - 1, atoms, keys)}
         \cup UNION {{JObj([i \in 1..Len(f) |-> <<ks[i], f[i]>>]) :
                         ks \in {k \in [1..Len(f) -> keys] :
                                    InPropertyOrder([i \in 1..Len(f) |-> <<k[i], JNull>>])}} :
                     f \in ForestsOf(n - 1, atoms, keys)}

ForestsOf(n, atoms, keys) ==
    IF n = 0 THEN {<<>>}
    ELSE UNION {{<<t>> \o f : t \in TreesOf(j, atoms, keys),
                              f \in ForestsOf(n - j, atoms, keys)} : j \in 1..n}

Samples ==
    { JNum(42),
      JStr(<<"x">>),
      JObj(<< <<(<<"a">>), JNum(1)>> >>),
      JNull,
      JBool(FALSE),
      JDec(TRUE, <<"1", "5">>, 0 - 6),
      JStr(<<>>),
      JStr(<<"\"", "\\", "\n", ",", "\f", "U+0008", "U+001F", "U+D83D">>),
      JArr(<<JArr(<<>>), JObj(<<>>), JDec(FALSE, <<"1">>, 22),
             JDec(TRUE, <<>>, 0), JDec(FALSE, <<"1", "2", "0", "5">>, 3)>>),
      JObj(<< <<(<<"1">>), JStr(<<"]">>)>>,
              <<(<<"b">>), JArr(<<JNum(0), JBool(TRUE)>>)>>,
              <<(<<"a">>), JObj(<< <<(<<"k", "\"">>), JNull>> >>)>> >>) }

\* the numbers JSON.parse builds from 12345678901234567890, 1e400,
\* 9007199254740993 and -1e400: the doubles 12345678901234567000, Infinity,
\* 9007199254740992 and -Infinity, as a match and inside a match
HostNumbers ==
    { JDec(FALSE, <<"1", "2", "3", "4", "5", "6", "7", "8", "9", "0",
                    "1", "2", "3", "4", "5", "6", "7", "8", "9">>, 20),
      JDec(FALSE, <<"1">>, 401),
      JArr(<<JDec(TRUE, <<"9", "0", "0", "7", "1", "9", "9", "2", "5", "4", "7",
                          "4", "0", "9", "9", "3">>, 16)>>),
      JArr(<<JDec(FALSE, <<"1">>, 401)>>),
      JObj(<< <<(<<"a">>), JDec(TRUE, <<"1">>, 401)>> >>) }

MatchLists ==
    UNION {[1..n -> Samples] : n \in 0..MaxLen}
    \cup {<<x>> : x \in HostNumbers}
    \cup {<<JStr(<<"x">>), x>> : x \in HostNumbers}
    \cup UNION {ForestsOf(n, Atoms, Keys) : n \in 0..MaxNodes}

(***************************************************************************)
(* The formatter called directly on a match list, and a standard JSON      *)
(* parser reading the result back.                                         *)
(***************************************************************************)
NotParsed == <<"none", JNull>>

FmtStart ==
    /\ results \in MatchLists
    /\ createJson \in BOOLEAN
    /\ content = <<>>
    /\ parsed = NotParsed
    /\ given = results
    /\ fpc = "ready"

FmtIdle ==
    /\ parsed = NotParsed
    /\ given = <<>>
    /\ fpc = "idle"

Format ==
    /\ fpc = "ready"
    /\ content' = format(results, createJson)
    /\ fpc' = "formatted"
    /\ UNCHANGED <<results, createJson, parsed, given>>
    /\ UNCHANGED <<pc, log>> /\ UNCHANGED cmdVars /\ UNCHANGED docVars
    /\ UNCHANGED walkVars

ParseBack ==
    /\ fpc = "formatted"
    /\ createJson
    /\ parsed' = JSONparse(content)
    /\ fpc' = "parsed"
    /\ UNCHANGED <<results, createJson, content, given>>
    /\ UNCHANGED <<pc, log>> /\ UNCHANGED cmdVars /\ UNCHANGED docVars
    /\ UNCHANGED walkVars

(***************************************************************************)
(* JsonPathExtension: messages and statuses                                *)
(***************************************************************************)
NoJsonDocumentErrorMsg ==
    "Active editor doesn't show a valid JSON file - please open a valid JSON file first"
InvalidJsonPathErrorMsg == "Provided jsonpath expression is not valid."
NoSavedQueriesErrorMsg == "Couldn't find any JSONPath queries in configuration."
EnterJsonPathPrompt == "Enter jsonpath."
NoResultsFoundMsg == "No results found for provided jsonpath."

\* ProcessQueryResultStatus, as the caller uses it
ProcessQueryResultStatus == {"Success", "InvalidQuery", "NoData", "Error"}

NoResult == <<"none", Undefined>>

(***************************************************************************)
(* The query engine (JsonPathQueryEngine.processQuery).  A query string is *)
(* kept whole; the engine knows the root query and one field access.  An   *)
(* unparseable query is InvalidQuery; a parseable one is Success with its  *)
(* matches, none included, or, on an internal fault, Error with a          *)
(* diagnostic.                                                             *)
(***************************************************************************)
Queries == {"", "$[", "$", "$.a"}
QuerySyntaxValid(q) == q \in {"$", "$.a"}

FieldA == <<"a">>

evaluate(q, document) ==
    CASE q = "$" -> <<document>>
      [] q = "$.a" ->
            IF Tag(document) = "obj"
            THEN LET ms == Payload(document)
                 IN [i \in 1..Cardinality({k \in 1..Len(ms) : ms[k][1] = FieldA}) |->
                        ms[CHOOSE k \in 1..Len(ms) : ms[k][1] = FieldA][2]]
            ELSE <<>>
      [] OTHER -> <<>>

Diagnostic == <<JStr(<<"f", "a", "u", "l", "t">>)>>

processQuery(q, document) ==
    IF ~QuerySyntaxValid(q) THEN {<<"InvalidQuery", Undefined>>}
    ELSE {<<"Success", Def(evaluate(q, document))>>, <<"Error", Def(Diagnostic)>>}

(***************************************************************************)
(* JsonPathExtension: helpers                                              *)
(***************************************************************************)
\* getJsonObject without the instanceof test.
getJsonObjectAnyValue(ed) ==
    TheOne({IF r[1] = "SyntaxError" THEN Undefined ELSE Def(r[2]) :
            r \in {JSONparse(ed.text)}})

getJsonObject(ed) ==
    TheOne({IF r[1] = "SyntaxError" THEN Undefined
            ELSE IF Tag(r[2]) \notin {"obj", "arr"} THEN Undefined
            ELSE Def(r[2]) :
            r \in {JSONparse(ed.text)}})

\* handleError that reports an internal error as a syntax problem.
handleErrorAsSyntax(result) ==
    CASE result[1] = "InvalidQuery" ->
            << <<"showErrorMessage", InvalidJsonPathErrorMsg>> >>
      [] result[1] = "NoData" ->
            << <<"showInformationMessage", NoResultsFoundMsg>> >>
      [] result[1] = "Error" ->
            << <<"showErrorMessage", InvalidJsonPathErrorMsg>> >>
      [] OTHER -> <<>>

\* the calls handleError makes
handleError(result) ==
    CASE result[1] = "InvalidQuery" ->
            << <<"showErrorMessage", InvalidJsonPathErrorMsg>> >>
      [] result[1] = "NoData" ->
            << <<"showInformationMessage", NoResultsFoundMsg>> >>
      [] result[1] = "Error" ->
            << <<"console.error", "result.result">> >>
      [] OTHER -> <<>>

\* result.status !== ProcessQueryResultStatus.Success || result.result === undefined
isFailure(result) == result[1] # "Success" \/ result[2] = Undefined

\* _.map(queries, query => ({ label: query.title, detail: query.query, description: '' }))
quickPicks(queries) ==
    [i \in 1..Len(queries) |->
        [label |-> queries[i].title, detail |-> queries[i].query, description |-> ""]]

\* _.find(queries, sq => sq.query === selectedPick.detail)
find(queries, selectedPick) ==
    IF \E i \in 1..Len(queries) : queries[i].query = selectedPick.detail
    THEN Def(queries[CHOOSE i \in 1..Len(queries) :
                      /\ queries[i].query = selectedPick.detail
                      /\ \A j \in 1..(i - 1) : queries[j].query # selectedPick.detail])
    ELSE Undefined

CmdIdle ==
    /\ pc = "idle"
    /\ cmd = "none"
    /\ editor = Undefined
    /\ config = Undefined
    /\ jsonObject = Undefined
    /\ input = Undefined
    /\ picked = 0
    /\ selectedQuery = Undefined
    /\ queryResult = NoResult
    /\ log = <<>>

WalkIdle ==
    /\ tree = JNull
    /\ stack = <<>>
    /\ emitted = <<>>

DocIdle ==
    /\ language = ""
    /\ uri = NoUri
    /\ docText = Undefined
    /\ shownColumn = 0

InitFormat == FmtStart /\ CmdIdle /\ DocIdle /\ WalkIdle
NextFormat == Format \/ ParseBack
SpecFormat == InitFormat /\ [][NextFormat]_vars

(***************************************************************************)
(* JsonPathExtension.run, runSavedQuery and showContent.  A handler is cut *)
(* at each await; showContent, which both commands call right after        *)
(* format, is a step of its own.  A host call that is awaited resolves or  *)
(* rejects; when it rejects the handler ends there, rejected.              *)
(***************************************************************************)
\* run, lines 36-50: up to the await of showInputBox
runCheck ==
    /\ pc = "start"
    /\ cmd = "run"
    /\ \/ /\ editor = Undefined
          /\ log' = Append(log, <<"showErrorMessage", NoJsonDocumentErrorMsg>>)
          /\ pc' = "done"
          /\ UNCHANGED jsonObject
       \/ /\ editor # Undefined
          /\ \E object \in {getJsonObject(editor[1])} :
                \/ /\ object = Undefined
                   /\ log' = Append(log, <<"showErrorMessage", NoJsonDocumentErrorMsg>>)
                   /\ pc' = "done"
                   /\ UNCHANGED jsonObject
                \/ /\ object # Undefined
                   /\ jsonObject' = object
                   /\ log' = Append(log, <<"showInputBox", EnterJsonPathPrompt>>)
                   /\ pc' = "inputBox"
    /\ UNCHANGED <<results, createJson, content, cmd, editor, config, input,
                   picked, selectedQuery, queryResult>>
    /\ UNCHANGED fmtVars /\ UNCHANGED docVars /\ UNCHANGED walkVars

\* run, lines 51-60: from the input box's answer to the call of showContent
runQuery ==
    /\ pc = "inputBox"
    /\ \E in \in {Undefined} \cup {Def(q) : q \in Queries} :
          /\ input' = in
          /\ \/ /\ in = Undefined      \* showInputBox rejected
                /\ pc' = "rejected"
                /\ UNCHANGED <<queryResult, log, results, content>>
             \/ /\ in = Undefined
                /\ pc' = "done"
                /\ UNCHANGED <<queryResult, log, results, content>>
             \/ /\ in # Undefined
                /\ \E r \in processQuery(in[1], jsonObject[1]) :
                      /\ queryResult' = r
                      /\ \/ /\ isFailure(r)
                            /\ log' = Append(log, <<"processQuery", in[1]>>)
                                      \o handleError(r)
                            /\ pc' = "done"
                            /\ UNCHANGED <<results, content>>
                         \/ /\ ~isFailure(r)
                            /\ results' = r[2][1]
                            /\ content' = format(r[2][1], createJson)
                            /\ log' = log \o << <<"processQuery", in[1]>>,
                                                <<"format", IF createJson THEN "json" ELSE "text">> >>
                            /\ pc' = "show"
    /\ UNCHANGED <<createJson, cmd, editor, config, jsonObject, picked, selectedQuery>>
    /\ UNCHANGED fmtVars /\ UNCHANGED docVars /\ UNCHANGED walkVars

\* runSavedQuery, lines 65-82 and selectSavedQuery, lines 140-141: up to the
\* await of showQuickPick
runSavedQueryCheck ==
    /\ pc = "start"
    /\ cmd = "runSavedQuery"
    /\ \/ /\ editor = Undefined
          /\ log' = Append(log, <<"showErrorMessage", NoJsonDocumentErrorMsg>>)
          /\ pc' = "done"
          /\ UNCHANGED jsonObject
       \/ /\ editor # Undefined
          /\ \E object \in {getJsonObject(editor[1])} :
                \/ /\ object = Undefined
                   /\ log' = Append(log, <<"showErrorMessage", NoJsonDocumentErrorMsg>>)
                   /\ pc' = "done"
                   /\ UNCHANGED jsonObject
                \/ /\ object # Undefined
                   /\ config = Undefined \/ config = Def(<<>>)
                   /\ jsonObject' = object
                   /\ log' = Append(log, <<"showErrorMessage", NoSavedQueriesErrorMsg>>)
                   /\ pc' = "done"
                \/ /\ object # Undefined
                   /\ config # Undefined
                   /\ config # Def(<<>>)
                   /\ jsonObject' = object
                   /\ log' = Append(log, <<"showQuickPick", "matchOnDetail">>)
                   /\ pc' = "quickPick"
    /\ UNCHANGED <<results, createJson, content, cmd, editor, config, input,
                   picked, selectedQuery, queryResult>>
    /\ UNCHANGED fmtVars /\ UNCHANGED docVars /\ UNCHANGED walkVars

\* selectSavedQuery, lines 140-145: the pick the user made (0 for none) to
\* the saved query it stands for
selectSavedQuery(queries, i) ==
    IF i = 0 THEN Undefined ELSE find(queries, quickPicks(queries)[i])

\* selectSavedQuery, lines 142-145: from the quick pick's answer to the
\* return of selectSavedQuery
selectSavedQueryReturn ==
    /\ pc = "quickPick"
    /\ \/ /\ \E i \in 0..Len(config[1]) :
                /\ picked' = i
                /\ selectedQuery' = selectSavedQuery(config[1], i)
          /\ pc' = "selected"
       \/ /\ pc' = "rejected"
          /\ UNCHANGED <<picked, selectedQuery>>
    /\ UNCHANGED <<results, createJson, content, cmd, editor, config, jsonObject,
                   input, queryResult, log>>
    /\ UNCHANGED fmtVars /\ UNCHANGED docVars /\ UNCHANGED walkVars

\* runSavedQuery, lines 82-92: from the return of selectSavedQuery to the
\* call of showContent
runSavedQueryQuery ==
    /\ pc = "selected"
    /\ \/ /\ selectedQuery = Undefined
          /\ pc' = "done"
          /\ UNCHANGED <<queryResult, log, results, content, createJson>>
       \/ /\ selectedQuery # Undefined
          /\ \E r \in processQuery(selectedQuery[1].query, jsonObject[1]) :
                /\ queryResult' = r
                /\ \/ /\ isFailure(r)
                      /\ log' = Append(log, <<"processQuery", selectedQuery[1].query>>)
                                \o handleError(r)
                      /\ pc' = "done"
                      /\ UNCHANGED <<results, content, createJson>>
                   \/ /\ ~isFailure(r)
                      /\ createJson' = (selectedQuery[1].output = "json")
                      /\ results' = r[2][1]
                      /\ content' = format(r[2][1], createJson')
                      /\ log' = log \o << <<"processQuery", selectedQuery[1].query>>,
                                          <<"format", IF createJson' THEN "json" ELSE "text">> >>
                      /\ pc' = "show"
    /\ UNCHANGED <<cmd, editor, config, jsonObject, input, picked, selectedQuery>>
    /\ UNCHANGED fmtVars /\ UNCHANGED docVars /\ UNCHANGED walkVars

\* showContent, lines 126-128: up to the await of openTextDocument
showContent ==
    /\ pc = "show"
    /\ language' = IF createJson THEN "json" ELSE "plaintext"
    /\ \E o \in encodeContent(content) :
          \/ /\ o[1] = "URIError"
             /\ log' = Append(log, <<"showContent", "URIError">>)
             /\ pc' = "rejected"
             /\ UNCHANGED uri
          \/ /\ o[1] = "ok"
             /\ uri' = o[2]
             /\ log' = log \o << <<"showContent", language'>>,
                                 <<"openTextDocument", "jsonpath">> >>
             /\ pc' = "opening"
    /\ UNCHANGED <<results, createJson, content, docText, shownColumn>>
    /\ UNCHANGED fmtVars /\ UNCHANGED cmdVars /\ UNCHANGED walkVars

\* the host opens the document, asking the provider for the text, or fails to
openTextDocument ==
    /\ pc = "opening"
    /\ \/ /\ docText' = Def(provideTextDocumentContent(uri))
          /\ pc' = "opened"
       \/ /\ pc' = "rejected"
          /\ UNCHANGED docText
    /\ UNCHANGED <<results, createJson, content, log, language, uri, shownColumn>>
    /\ UNCHANGED fmtVars /\ UNCHANGED cmdVars /\ UNCHANGED walkVars

\* showContent, line 130: with the document, up to the await of
\* setTextDocumentLanguage
setTextDocumentLanguage ==
    /\ pc = "opened"
    /\ log' = Append(log, <<"setTextDocumentLanguage", language>>)
    /\ pc' = "settingLanguage"
    /\ UNCHANGED <<results, createJson, content, language, uri, docText, shownColumn>>
    /\ UNCHANGED fmtVars /\ UNCHANGED cmdVars /\ UNCHANGED walkVars

\* showContent, line 131: once setTextDocumentLanguage has settled, up to the
\* await of showTextDocument
showTextDocument ==
    /\ pc = "settingLanguage"
    /\ \/ /\ log' = Append(log, <<"showTextDocument", "doc">>)
          /\ pc' = "showing"
       \/ /\ pc' = "rejected"
          /\ UNCHANGED log
    /\ UNCHANGED <<results, createJson, content, language, uri, docText, shownColumn>>
    /\ UNCHANGED fmtVars /\ UNCHANGED cmdVars /\ UNCHANGED walkVars

\* showContent, line 132: once showTextDocument has settled; the document is
\* shown in the column next to the editor's, and the command returns
showContentReturn ==
    /\ pc = "showing"
    /\ \/ /\ shownColumn' = editor[1].viewColumn + 1
          /\ pc' = "done"
       \/ /\ pc' = "rejected"
          /\ UNCHANGED shownColumn
    /\ UNCHANGED <<results, createJson, content, log, language, uri, docText>>
    /\ UNCHANGED fmtVars /\ UNCHANGED cmdVars /\ UNCHANGED walkVars

(***************************************************************************)
(* The commands run on an editor and a configuration                       *)
(***************************************************************************)
MaxSaved == 2     \* saved queries in the configuration

DocTexts ==
    { <<>>,
      <<"{">>,
      <<"4", "2">>,
      <<"n", "u", "l", "l">>,
      <<"\"", "x", "\"">>,
      <<"{", "\"", "a", "\"", ":", "1", "}">>,
      <<" ", "[", " ", "1", " ", "]", "\n">>,
      <<"[", "1", ".", "5", "e", "2", "]">>,
      <<"[", "9", "0", "0", "7", "1", "9", "9", "2", "5", "4", "7", "4", "0", "9",
        "9", "3", "]">>,
      <<"[", "1", "e", "4", "0", "0", "]">>,
      <<"{", "\"", "a", "\"", ":", "\"", "#", "%", "\"", "}">> }

Editors ==
    {Undefined} \cup {Def([text |-> t, viewColumn |-> c]) : t \in DocTexts, c \in {0, 1}}

SavedQueries == [title : {"A", "B"}, query : {"$", "$.a"}, output : {"json", "text"}]

Configs == {Undefined} \cup {Def(qs) : qs \in UNION {[1..n -> SavedQueries] : n \in 0..MaxSaved}}

CmdStart ==
    /\ pc = "start"
    /\ cmd \in {"run", "runSavedQuery"}
    /\ editor \in Editors
    /\ IF cmd = "run"
       THEN createJson \in BOOLEAN /\ config = Undefined
       ELSE createJson = FALSE /\ config \in Configs
    /\ results = <<>>
    /\ content = <<>>
    /\ jsonObject = Undefined
    /\ input = Undefined
    /\ picked = 0
    /\ selectedQuery = Undefined
    /\ queryResult = NoResult
    /\ log = <<>>

InitRun == CmdStart /\ FmtIdle /\ DocIdle /\ WalkIdle
NextRun ==
    \/ runCheck
    \/ runQuery
    \/ runSavedQueryCheck
    \/ selectSavedQueryReturn
    \/ runSavedQueryQuery
    \/ showContent
    \/ openTextDocument
    \/ setTextDocumentLanguage
    \/ showTextDocument
    \/ showContentReturn
SpecRun == InitRun /\ [][NextRun]_vars

(***************************************************************************)
(* showContent and the DocProvider on any content                          *)
(***************************************************************************)
MaxContentLen == 3     \* characters of a content string

ContentTexts ==
    UNION {[1..n -> {"x", "#", "?", "%", "2", "3", "\n"}] : n \in 0..MaxContentLen}

DocStart ==
    /\ pc = "show"
    /\ cmd = "showContent"
    /\ content \in ContentTexts
    /\ createJson \in BOOLEAN
    /\ editor = Def([text |-> <<>>, viewColumn |-> 0])
    /\ results = <<>>
    /\ config = Undefined
    /\ jsonObject = Undefined
    /\ input = Undefined
    /\ picked = 0
    /\ selectedQuery = Undefined
    /\ queryResult = NoResult
    /\ log = <<>>

InitDoc == DocStart /\ FmtIdle /\ DocIdle /\ WalkIdle
NextDoc ==
    \/ showContent
    \/ openTextDocument
    \/ setTextDocumentLanguage
    \/ showTextDocument
    \/ showContentReturn
SpecDoc == InitDoc /\ [][NextDoc]_vars

(***************************************************************************)
(* Recursive descent of the query engine, with an explicit stack: the node *)
(* on top is emitted and its children are pushed, last child first.  A     *)
(* node is named by its path, the child positions from the root.           *)
(***************************************************************************)
MaxWalkNodes == 4     \* nodes of a walked document

Children(value) ==
    CASE Tag(value) = "arr" -> Payload(value)
      [] Tag(value) = "obj" -> [i \in 1..Len(Payload(value)) |-> Payload(value)[i][2]]
      [] OTHER -> <<>>

RECURSIVE NodeAt(_, _)
NodeAt(value, path) ==
    IF path = <<>> THEN value ELSE NodeAt(Children(value)[path[1]], Tail(path))

\* A push of the children first child first.
pushChildrenForward(stk, path, n) == stk \o [i \in 1..n |-> Append(path, i)]

pushChildren(stk, path, n) == stk \o [i \in 1..n |-> Append(path, n + 1 - i)]

DescentStep ==
    /\ stack # <<>>
    /\ LET top == stack[Len(stack)]
       IN /\ emitted' = Append(emitted, top)
          /\ stack' = pushChildren(SubSeq(stack, 1, Len(stack) - 1), top,
                                   Len(Children(NodeAt(tree, top))))
    /\ UNCHANGED <<tree, results, createJson, content, pc, log>>
    /\ UNCHANGED fmtVars /\ UNCHANGED cmdVars /\ UNCHANGED docVars

WalkTrees ==
    UNION {TreesOf(n, {JNum(0)}, {<<"b">>, <<"a">>}) : n \in 1..MaxWalkNodes}

WalkStart ==
    /\ tree \in WalkTrees
    /\ stack = << <<>> >>
    /\ emitted = <<>>
    /\ results = <<>>
    /\ createJson = FALSE
    /\ content = <<>>

InitDescent == WalkStart /\ FmtIdle /\ CmdIdle /\ DocIdle
NextDescent == DescentStep
SpecDescent == InitDescent /\ [][NextDescent]_vars /\ WF_vars(DescentStep)

(***************************************************************************)
(* Claims about the formatter, checked under SpecFormat                    *)
(***************************************************************************)
Formatted == fpc \in {"formatted", "parsed"}

ExampleMatches == <<JNum(42), JStr(<<"x">>), JObj(<< <<(<<"a">>), JNum(1)>> >>)>>
ExamplePlain == <<"4", "2", "\n", "x", "\n", "{", "\"", "a", "\"", ":", "1", "}">>

\* x and y are the same number: -0 and 0 are equal
NumberEquals(x, y) ==
    /\ x[1] = y[1]
    /\ x[3] = y[3]
    /\ x[4] = y[4]
    /\ x[2] = y[2] \/ (x[1] = "finite" /\ x[3] = <<>>)

\* seg is a decimal text of the number x: a numeral (sign, digits, fraction,
\* exponent) and nothing else, whose value is x
IsDecimalOf(seg, x) ==
    LET r == ParseNumber(seg, 1)
    IN /\ r[1]
       /\ r[3] = Len(seg) + 1
       /\ NumberEquals(Payload(r[2]), x)

\* a and b are the same JSON value to a reader of JSON text: same kind, equal
\* numbers (-0 and 0 are equal), same text, same elements in the same order, same members with the
\* same keys in the same order
RECURSIVE SameJsonValue(_, _)
SameJsonValue(a, b) ==
    /\ Tag(a) = Tag(b)
    /\ CASE Tag(a) = "num" -> NumberEquals(Payload(a), Payload(b))
         [] Tag(a) = "arr" ->
               /\ Len(Payload(a)) = Len(Payload(b))
               /\ \A i \in 1..Len(Payload(a)) :
                     SameJsonValue(Payload(a)[i], Payload(b)[i])
         [] Tag(a) = "obj" ->
               /\ Len(Payload(a)) = Len(Payload(b))
               /\ \A i \in 1..Len(Payload(a)) :
                     /\ Payload(a)[i][1] = Payload(b)[i][1]
                     /\ SameJsonValue(Payload(a)[i][2], Payload(b)[i][2])
         [] OTHER -> a = b

\* seg is a JSON text of v without insignificant whitespace (the model's
\* string values hold no blank, so a compact text holds no whitespace at all)
IsCompactJsonOf(seg, v) ==
    /\ JSONparse(seg)[1] = "ok"
    /\ SameJsonValue(JSONparse(seg)[2], v)
    /\ \A i \in 1..Len(seg) : ~IsWhitespace(seg[i])

IsRenderingOf(seg, v) ==
    CASE Tag(v) = "str" -> seg = Payload(v)
      [] Tag(v) = "num" -> IsDecimalOf(seg, Payload(v))
      [] OTHER -> IsCompactJsonOf(seg, v)

Nth(S, i) == CHOOSE p \in S : Cardinality({q \in S : q < p}) = i - 1

\* out splits at Len(m) - 1 of its newlines into the renderings of m, in order
IsPlainJoinOf(out, m) ==
    IF m = <<>> THEN out = <<>>
    ELSE \E cuts \in SUBSET {p \in 1..Len(out) : out[p] = "\n"} :
            /\ Cardinality(cuts) = Len(m) - 1
            /\ LET from(i) == IF i = 1 THEN 1 ELSE Nth(cuts, i - 1) + 1
                   to(i) == IF i = Len(m) THEN Len(out) ELSE Nth(cuts, i) - 1
               IN \A i \in 1..Len(m) :
                     IsRenderingOf(SubSeq(out, from(i), to(i)), m[i])

\* C1, as claimed: in plain mode the output is the renderings of the matches,
\* in order, separated by single newlines and with nothing before the first
\* or after the last: a string as its raw text, a number as its decimal text,
\* any other value as its compact JSON text; [42, "x", {"a":1}] gives
\* 42\nx\n{"a":1}.
C1_PlainJoin ==
    (Formatted /\ ~createJson) =>
        /\ IsPlainJoinOf(content, given)
        /\ (given = ExampleMatches => content = ExamplePlain)

\* C2, as claimed: a standard JSON parser reading the JSON-mode output back
\* yields a list structurally equal to the match list: same length, same
\* order, same member order in objects.  The values of the model are in one
\* form only (a number is its shortest digits, an object its members in
\* property order), so two of them are structurally equal, the sign of zero
\* included, exactly when they are equal.
C2_RoundTrip ==
    fpc = "parsed" =>
        /\ parsed[1] = "ok"
        /\ parsed[2] = JArr(given)

\* C3: the empty match list is rendered as [] in JSON mode and as the empty
\* string in plain mode.
C3_Empty ==
    (Formatted /\ given = <<>>) =>
        content = IF createJson THEN <<"[", "]">> ELSE <<>>

C3_Witness ==
    /\ fpc = "formatted"
    /\ given = <<>>
    /\ createJson
    /\ content = <<"[", "]">>

(***************************************************************************)
(* Claims about the commands, checked under SpecRun                        *)
(***************************************************************************)
Has(name) == \E i \in 1..Len(log) : log[i][1] = name
Count(name) == Cardinality({i \in 1..Len(log) : log[i][1] = name})
IndexOf(name) == CHOOSE i \in 1..Len(log) : log[i][1] = name
ArgOf(name) == log[IndexOf(name)][2]
Shown(event) == \E i \in 1..Len(log) : log[i] = event
AfterQuery == SubSeq(log, IndexOf("processQuery") + 1, Len(log))
Returned == queryResult # NoResult

\* the query handed to the engine found nothing in the document
ZeroMatch ==
    /\ Returned
    /\ QuerySyntaxValid(ArgOf("processQuery"))
    /\ evaluate(ArgOf("processQuery"), jsonObject[1]) = <<>>

\* C5, as claimed: the statuses are Success, InvalidQuery and Error and no
\* other; a parseable query without matches is Success with an empty match
\* set, not a status of its own, and the caller formats the empty match set.
C5_ZeroMatchIsSuccess ==
    Returned =>
        /\ ProcessQueryResultStatus = {"Success", "InvalidQuery", "Error"}
        /\ queryResult[1] \in ProcessQueryResultStatus
        /\ (ZeroMatch /\ queryResult[1] # "Error") =>
              /\ queryResult = <<"Success", Def(<<>>)>>
              /\ Has("format")

\* C6: after the engine returned, the invalid-JSONPath error is shown exactly
\* when the status is InvalidQuery and the no-results information exactly when
\* it is NoData; for Error the diagnostic is logged and nothing is shown; and
\* unless the status is Success with a result, nothing is formatted or shown
\* as a document.
C6_HandleError ==
    Returned =>
        /\ Shown(<<"showErrorMessage", InvalidJsonPathErrorMsg>>)
              <=> queryResult[1] = "InvalidQuery"
        /\ Shown(<<"showInformationMessage", NoResultsFoundMsg>>)
              <=> queryResult[1] = "NoData"
        /\ queryResult[1] = "Error" =>
              AfterQuery = << <<"console.error", "result.result">> >>
        /\ (queryResult[1] # "Success" \/ queryResult[2] = Undefined) =>
              /\ ~Has("format")
              /\ ~Has("showContent")
              /\ ~Has("showErrorMessage") \/ queryResult[1] = "InvalidQuery"
              /\ pc = "done"

C6_Witness ==
    /\ queryResult = <<"Error", Def(Diagnostic)>>
    /\ pc = "done"
    /\ AfterQuery = << <<"console.error", "result.result">> >>

\* the editor's text is JSON for an object or an array
ShowsJsonDocument ==
    /\ editor # Undefined
    /\ \E r \in {JSONparse(editor[1].text)} :
          r[1] = "ok" /\ Tag(r[2]) \in {"obj", "arr"}

\* C8: in run, the engine is called at most once, and only with an editor
\* whose text is JSON for an object or array and after the input box gave a
\* string; without such an editor one NoJsonDocumentErrorMsg error is the only
\* call made; if the input box gives nothing, nothing else is called; format
\* and showContent come only after the engine returned Success with a result.
C8_RunOrder ==
    cmd = "run" =>
        /\ Count("processQuery") <= 1
        /\ Has("processQuery") =>
              /\ ShowsJsonDocument
              /\ input # Undefined
              /\ ArgOf("processQuery") = input[1]
              /\ Has("showInputBox")
              /\ IndexOf("showInputBox") < IndexOf("processQuery")
        /\ (pc # "start" /\ ~ShowsJsonDocument) =>
              /\ log = << <<"showErrorMessage", NoJsonDocumentErrorMsg>> >>
              /\ pc = "done"
        /\ (pc # "start" /\ ShowsJsonDocument) => log[1][1] = "showInputBox"
        /\ (pc = "done" /\ ShowsJsonDocument /\ input = Undefined) =>
              log = << <<"showInputBox", EnterJsonPathPrompt>> >>
        /\ Has("format") =>
              /\ queryResult[1] = "Success"
              /\ queryResult[2] # Undefined
              /\ IndexOf("processQuery") < IndexOf("format")
              /\ Count("format") = 1
        /\ Has("showContent") =>
              /\ Has("format")
              /\ IndexOf("format") < IndexOf("showContent")
              /\ Count("showContent") = 1

C8_Witness ==
    /\ cmd = "run"
    /\ pc = "done"
    /\ editor # Undefined
    /\ editor[1].text = <<"n", "u", "l", "l">>
    /\ log = << <<"showErrorMessage", NoJsonDocumentErrorMsg>> >>

\* C9, as claimed: runSavedQuery evaluates the query of the entry the user
\* picked and formats with that entry's output format.
C9_PickedEntry ==
    (cmd = "runSavedQuery" /\ picked # 0) =>
        /\ Has("processQuery") => ArgOf("processQuery") = config[1][picked].query
        /\ Has("format") =>
              (ArgOf("format") = "json" <=> config[1][picked].output = "json")

(***************************************************************************)
(* Claim about the DocProvider, checked under SpecDoc                      *)
(***************************************************************************)
\* C10, as claimed: the text of the opened document is the content that was
\* encoded.
C10_DocTextIsContent ==
    docText # Undefined => docText = Def(content)

(***************************************************************************)
(* Claim about recursive descent, checked under SpecDescent                *)
(***************************************************************************)
RECURSIVE NodeCount(_)
NodeCount(value) ==
    LET kids == Children(value)
        RECURSIVE Sum(_)
        Sum(i) == IF i = 0 THEN 0 ELSE NodeCount(kids[i]) + Sum(i - 1)
    IN 1 + Sum(Len(kids))

RECURSIVE IsNode(_, _)
IsNode(value, path) ==
    \/ path = <<>>
    \/ /\ path[1] \in 1..Len(Children(value))
       /\ IsNode(Children(value)[path[1]], Tail(path))

IsPrefix(p, q) == Len(p) <= Len(q) /\ SubSeq(q, 1, Len(p)) = p

\* p comes before q in pre-order: p is an ancestor of q, or where they part p
\* goes to the earlier child
Before(p, q) ==
    \/ IsPrefix(p, q) /\ p # q
    \/ \E k \in 1..Len(p) :
          /\ k <= Len(q)
          /\ SubSeq(p, 1, k - 1) = SubSeq(q, 1, k - 1)
          /\ p[k] < q[k]

InPreOrder(paths) ==
    /\ \A i \in 1..Len(paths) : IsNode(tree, paths[i])
    /\ \A i, j \in 1..Len(paths) : i < j => Before(paths[i], paths[j])

\* C7: the descent ends, and when it has ended every one of the N nodes of the
\* document has been emitted exactly once, a node before its children and the
\* children from first to last.
C7_Descent ==
    /\ [](InPreOrder(emitted))
    /\ [](stack = <<>> => Len(emitted) = NodeCount(tree))
    /\ <>(stack = <<>>)

C7_Witness ==
    /\ stack = <<>>
    /\ Len(emitted) = MaxWalkNodes
    /\ emitted[2] = <<1>>
    /\ emitted[3] = <<1, 1>>
    /\ emitted[MaxWalkNodes] = <<2>>

====
